---- MODULE Spec2Model ----
(***************************************************************************)
(* The update ingestion and dispatch pipeline of src/botml31.py.           *)
(*                                                                         *)
(* The program is one asyncio event loop.  WebhookHandler.do_POST hands    *)
(* every inbound update to the loop as a process_update task.  A task runs *)
(* without interruption until it reaches an await that really suspends:    *)
(*   - the upstream generation attempt (asyncio.to_thread, line 136),      *)
(*   - the retry backoff (asyncio.sleep, lines 144 and 150),               *)
(*   - the pacing delay of flush_message_queue (asyncio.sleep, line 195).  *)
(* send_message, notify_owner and send_chat_action are coroutines without  *)
(* a suspending await, and the sqlite3 and requests calls are blocking, so *)
(* awaiting them never yields to another task.  Each action below is one   *)
(* such uninterrupted run of one task, from one suspension to the next.    *)
(***************************************************************************)
EXTENDS Integers, Sequences, FiniteSets, TLC

\* ---------------------------------------------------------------- constants

OWNER_CHAT_ID == "O"

\* chat identifiers: the owner's chat and one customer chat
Chats == {"O", "A"}

REPLY_DELAY == 2
MIN_MESSAGE_INTERVAL == 10
MAX_QUEUE_SIZE == 10
\* default of generate_response_with_retry's max_retries
MAX_RETRIES == 3
\* handle_direct_message discards a message older than this many seconds
STALE_SECONDS == 60

\* ------------------------------------------------------------------- bounds

\* process_update tasks created in one run (deliveries, redeliveries included)
MaxTasks == 2
\* seconds the clock may advance past its start
MaxElapsed == 12
\* seconds between two observations of the clock
TickSeconds == 2

\* time.time() at start: the epoch clock is far past MIN_MESSAGE_INTERVAL, so
\* a chat without a chat_timestamps row (last_message_time 0) is never
\* rate limited
StartTime == MIN_MESSAGE_INTERVAL

VARIABLES
    now,                \* time.time(), whole seconds
    processed_updates,  \* table processed_updates: set of update_id
    chat_history,       \* table chat_history: sequence of rows, in id order
    chat_timestamps,    \* table chat_timestamps: chat_id -> last_message_time
    LEARNED_CONTEXT,    \* sequence of the fragments appended so far
    BLOCKED_CHATS,      \* set of chat_id
    message_queue,      \* list of payloads
    tasks,              \* the process_update tasks, in creation order
    calls,              \* observation: send_message calls of the last step
    posts,              \* observation: sendMessage requests of the last step
    lastAccepted,       \* observation: chat_id -> time of its last accepted enqueue
    posted,             \* observation: entries handed to the transport so far
    attempts,           \* observation: the delivery attempts made so far
    nextEid,            \* observation: identity given to the next queue entry
    catalogue,          \* the shapes of update this run's customers send
    horizon             \* the last clock value this run is followed to

vars == <<now, processed_updates, chat_history, chat_timestamps, LEARNED_CONTEXT,
          BLOCKED_CHATS, message_queue, tasks, calls, posts, lastAccepted,
          posted, attempts, nextEid, catalogue, horizon>>

\* ------------------------------------------------------------------- texts
\* A text is a sequence of tokens.

NOTICE_TEXT == <<"Sorry, I can only process text messages. Please wait for THEFLASH47 to assist you.">>
APOLOGY_TEXT == <<"Oops, something went wrong! Please wait for THEFLASH47 to assist you.">>
welcome_text(user_name) == <<"Hi ", user_name, "! I'm your support bot, powered by Gemini. How can I help you today?">>

\* str.strip(): leading and trailing whitespace tokens removed
RECURSIVE lstrip(_)
lstrip(t) == IF t # <<>> /\ Head(t) = " " THEN lstrip(Tail(t)) ELSE t

RECURSIVE rstrip(_)
rstrip(t) == IF t # <<>> /\ t[Len(t)] = " " THEN rstrip(SubSeq(t, 1, Len(t) - 1)) ELSE t

strip(t) == rstrip(lstrip(t))

\* mutant: no text is taken for the start command
startswith_start_never(t) == FALSE

\* user_message.startswith("/start"): the text "/start" is the token "/start",
\* and a longer text that begins with it is that token followed by others
startswith_start(t) == t # <<>> /\ Head(t) = "/start"

\* ------------------------------------------------------- the shared state
\* The operators below are the program's functions.  Each takes the shared
\* state as a record s and returns the state it leaves.

Shared ==
    [now |-> now, proc |-> processed_updates, hist |-> chat_history,
     ts |-> chat_timestamps, learned |-> LEARNED_CONTEXT, blocked |-> BLOCKED_CHATS,
     queue |-> message_queue, calls |-> <<>>, posts |-> <<>>,
     lastAcc |-> lastAccepted, posted |-> posted, att |-> attempts, eid |-> nextEid]

Commit(s) ==
    /\ processed_updates' = s.proc
    /\ chat_history' = s.hist
    /\ chat_timestamps' = s.ts
    /\ LEARNED_CONTEXT' = s.learned
    /\ BLOCKED_CHATS' = s.blocked
    /\ message_queue' = s.queue
    /\ calls' = s.calls
    /\ posts' = s.posts
    /\ lastAccepted' = s.lastAcc
    /\ posted' = s.posted
    /\ attempts' = s.att
    /\ nextEid' = s.eid
    /\ UNCHANGED <<catalogue, horizon>>

\* INSERT OR REPLACE into a table keyed by k
Upsert(f, k, v) == [x \in DOMAIN f \cup {k} |-> IF x = k THEN v ELSE f[x]]

\* ------------------------------------------------------------ persistence

\* mutant: the row is not written
save_message_to_db_dropped(s, uid, chat_id, role, content) == s

save_message_to_db(s, uid, chat_id, role, content) ==
    [s EXCEPT !.hist = Append(@, [chat_id |-> chat_id, role |-> role,
                                  content |-> content, timestamp |-> s.now,
                                  uid |-> uid])]

\* default of load_chat_history's limit
HISTORY_LIMIT == 5

\* the rows of a chat: WHERE chat_id = ?
ChatRows(hist, chat_id) == {k \in 1..Len(hist) : hist[k].chat_id = chat_id}

\* ORDER BY timestamp DESC: row a is read before row b.  Rows with equal
\* timestamps come in the order the statement leaves them in, which for
\* this build's SQLite (3.40) is the order of their ids.
ReadBefore(hist, a, b) ==
    \/ hist[a].timestamp > hist[b].timestamp
    \/ hist[a].timestamp = hist[b].timestamp /\ a < b

\* fetchall() of the SELECT of line 79: the ids of the first `limit` rows of
\* the chat in read order
select_recent(hist, chat_id, limit) ==
    LET K == ChatRows(hist, chat_id)
        n == IF limit < Cardinality(K) THEN limit ELSE Cardinality(K)
    IN [p \in 1..n |->
          CHOOSE k \in K : Cardinality({b \in K : ReadBefore(hist, b, k)}) = p - 1]

\* mutant: the rows are returned in read order
reversed_not(seq) == seq

\* history[::-1]
reversed(seq) == [p \in 1..Len(seq) |-> seq[Len(seq) + 1 - p]]

\* the ids of the rows load_chat_history returns, in the order it returns them
recent_ids(hist, chat_id, limit) == reversed(select_recent(hist, chat_id, limit))

load_chat_history(hist, chat_id, limit) ==
    LET ids == recent_ids(hist, chat_id, limit)
    IN [p \in 1..Len(ids) |-> [role |-> hist[ids[p]].role, content |-> hist[ids[p]].content]]

\* mutant: the lookup never finds the row
is_update_processed_never(proc, update_id) == FALSE

is_update_processed(proc, update_id) == update_id \in proc

\* mutant: the insert is lost
mark_update_processed_lost(proc, update_id) == proc

mark_update_processed(proc, update_id) == proc \cup {update_id}

get_last_message_time(ts, chat_id) == IF chat_id \in DOMAIN ts THEN ts[chat_id] ELSE 0

\* mutant: the upsert is lost
update_last_message_time_lost(ts, chat_id, timestamp) == ts

update_last_message_time(ts, chat_id, timestamp) == Upsert(ts, chat_id, timestamp)

\* ------------------------------------------------------------- dispatcher

NoBc == "none"

\* equality of two payload dicts (the entry's identity eid is an observation,
\* not a key of the dict)
SameMsg(a, b) == a.chat_id = b.chat_id /\ a.text = b.text /\ a.bcid = b.bcid

\* msg in message_queue
Contains(q, msg) == \E i \in 1..Len(q) : SameMsg(q[i], msg)

\* message_queue.remove(msg): removes the first entry equal to msg
list_remove(q, msg) ==
    LET i == CHOOSE k \in 1..Len(q) :
                 SameMsg(q[k], msg) /\ \A j \in 1..(k - 1) : ~SameMsg(q[j], msg)
    IN SubSeq(q, 1, i - 1) \o SubSeq(q, i + 1, Len(q))

\* mutant: the blocked-chat gate is missing
Rejects_unblocked(s, chat_id) ==
    \/ s.now - (IF chat_id \in DOMAIN s.ts THEN s.ts[chat_id] ELSE 0) < MIN_MESSAGE_INTERVAL
    \/ Len(s.queue) >= MAX_QUEUE_SIZE

\* mutant: the queue gate is off by one
Rejects_late(s, chat_id) ==
    \/ chat_id \in s.blocked
    \/ s.now - (IF chat_id \in DOMAIN s.ts THEN s.ts[chat_id] ELSE 0) < MIN_MESSAGE_INTERVAL
    \/ Len(s.queue) > MAX_QUEUE_SIZE

\* The three gates of send_message, in the order of the code.
Rejects(s, chat_id) ==
    \/ chat_id \in s.blocked
    \/ s.now - get_last_message_time(s.ts, chat_id) < MIN_MESSAGE_INTERVAL
    \/ Len(s.queue) >= MAX_QUEUE_SIZE

\* What a send_message call saw and answered.
CallEvent(s, chat_id, text, accepted) ==
    [chat_id |-> chat_id, text |-> text, time |-> s.now,
     blocked |-> chat_id \in s.blocked,
     last |-> get_last_message_time(s.ts, chat_id),
     qlen |-> Len(s.queue),
     hasPrev |-> chat_id \in DOMAIN s.lastAcc,
     prev |-> IF chat_id \in DOMAIN s.lastAcc THEN s.lastAcc[chat_id] ELSE 0,
     accepted |-> accepted]

\* mutant: an accepted call also stamps the chat's last_message_time
send_message_stamps(s, uid, chat_id, text, bcid) ==
    IF Rejects(s, chat_id)
    THEN [s EXCEPT !.calls = Append(@, CallEvent(s, chat_id, text, FALSE))]
    ELSE [s EXCEPT !.queue = Append(@, [chat_id |-> chat_id, text |-> text,
                                         bcid |-> bcid, eid |-> s.eid, uid |-> uid]),
                   !.calls = Append(@, CallEvent(s, chat_id, text, TRUE)),
                   !.lastAcc = Upsert(@, chat_id, s.now),
                   !.ts = Upsert(@, chat_id, s.now),
                   !.eid = @ + 1]

send_message(s, uid, chat_id, text, bcid) ==
    IF Rejects(s, chat_id)
    THEN [s EXCEPT !.calls = Append(@, CallEvent(s, chat_id, text, FALSE))]
    ELSE [s EXCEPT !.queue = Append(@, [chat_id |-> chat_id, text |-> text,
                                         bcid |-> bcid, eid |-> s.eid, uid |-> uid]),
                   !.calls = Append(@, CallEvent(s, chat_id, text, TRUE)),
                   !.lastAcc = Upsert(@, chat_id, s.now),
                   !.eid = @ + 1]

\* mutant: the notification is queued without passing the gates
notify_owner_ungated(s, uid, message) ==
    [s EXCEPT !.queue = Append(@, [chat_id |-> OWNER_CHAT_ID, text |-> message,
                                   bcid |-> NoBc, eid |-> s.eid, uid |-> uid]),
              !.calls = Append(@, CallEvent(s, OWNER_CHAT_ID, message, TRUE)),
              !.lastAcc = Upsert(@, OWNER_CHAT_ID, s.now),
              !.eid = @ + 1]

\* mutant: the notification goes to the customer's chat
notify_owner_astray(s, uid, message) == send_message(s, uid, "A", message, NoBc)

\* mutant: the owner is not told
notify_owner_silent(s, uid, message) == s

notify_owner(s, uid, message) == send_message(s, uid, OWNER_CHAT_ID, message, NoBc)

\* mutant: the key tells entries with the same text apart
msg_key_entry(msg) == <<msg.chat_id, msg.eid>>

msg_key(msg) == <<msg.chat_id, msg.text>>

\* The for loop of flush_message_queue from entry i of the snapshot up to the
\* next pacing delay: entries whose key was already sent in this pass are
\* removed (line 191; list.remove raises ValueError, outside any try, when
\* the entry is no longer in the queue).
RECURSIVE flush_loop(_, _, _, _)
flush_loop(s, snap, i, sent) ==
    IF i > Len(snap) THEN [s |-> s, idx |-> i, status |-> "done"]
    ELSE IF msg_key(snap[i]) \in sent
         THEN IF Contains(s.queue, snap[i])
              THEN flush_loop([s EXCEPT !.queue = list_remove(@, snap[i])], snap, i + 1, sent)
              ELSE [s |-> s, idx |-> i, status |-> "crashed"]
         ELSE [s |-> s, idx |-> i, status |-> "sleep"]

\* mutant: the chat is not recorded
blocked_add_lost(blocked, chat_id) == blocked

\* BLOCKED_CHATS.add(msg['chat_id'])
blocked_add(blocked, chat_id) == blocked \cup {chat_id}

\* str(e) of the three failures a delivery attempt can end in
ERR_HTTP == "HTTPError"
ERR_NET == "ConnectionError"
ERR_VALUE == "list.remove(x): x not in list"

blocked_text(chat_id, err) == <<"Chat ", chat_id, " blocked or restricted: ", err>>
send_failed_text(chat_id, err) == <<"Failed to send message to chat ", chat_id, ": ", err>>

Outcomes == {"ok", "http400", "http500", "neterr"}

\* the outcomes the program treats as transient: any failure but HTTP 400
Transient == {"http500", "neterr"}

\* The final message_queue.remove(msg) of a handler (lines 201, 210, 214) and
\* the rest of the loop after it.
remove_and_continue(s, snap, i, sent) ==
    IF Contains(s.queue, snap[i])
    THEN flush_loop([s EXCEPT !.queue = list_remove(@, snap[i])], snap, i + 1, sent)
    ELSE [s |-> s, idx |-> i, status |-> "crashed"]

\* Lines 196-214 for entry i of the snapshot, the pacing delay over, with the
\* transport answering `outcome`; then the loop up to the next delay.  uid is
\* the update whose process_update task runs this pass.
flush_send(s, uid, snap, i, sent, outcome) ==
    LET msg == snap[i]
        s0 == [s EXCEPT !.posts = Append(@, [eid |-> msg.eid, chat_id |-> msg.chat_id,
                                             text |-> msg.text, outcome |-> outcome,
                                             again |-> msg.eid \in s.posted,
                                             pass |-> uid,
                                             blocked |-> msg.chat_id \in s.blocked,
                                             retried |-> \E a \in s.att :
                                                 a.eid = msg.eid /\ a.outcome \in Transient,
                                             dup |-> \E a \in s.att :
                                                 /\ a.pass = uid /\ a.outcome = "ok"
                                                 /\ a.chat_id = msg.chat_id
                                                 /\ a.text = msg.text]),
                        !.posted = @ \cup {msg.eid},
                        !.att = @ \cup {[eid |-> msg.eid, pass |-> uid,
                                         chat_id |-> msg.chat_id, text |-> msg.text,
                                         outcome |-> outcome]}]
    IN CASE outcome = "ok" ->
              LET sent1 == sent \cup {msg_key(msg)}
                  s1 == [s0 EXCEPT !.ts = update_last_message_time(@, msg.chat_id, s.now)]
              IN IF Contains(s1.queue, msg)
                 THEN flush_loop([s1 EXCEPT !.queue = list_remove(@, msg)], snap, i + 1, sent1)
                          @@ [sent |-> sent1]
                 ELSE \* ValueError inside the try: handled by except Exception
                      remove_and_continue(
                          notify_owner(s1, uid, send_failed_text(msg.chat_id, ERR_VALUE)),
                          snap, i, sent1) @@ [sent |-> sent1]
         [] outcome = "http400" ->
              remove_and_continue(
                  notify_owner([s0 EXCEPT !.blocked = blocked_add(@, msg.chat_id)], uid,
                               blocked_text(msg.chat_id, ERR_HTTP)),
                  snap, i, sent) @@ [sent |-> sent]
         [] outcome = "http500" ->
              remove_and_continue(
                  notify_owner(s0, uid, send_failed_text(msg.chat_id, ERR_HTTP)),
                  snap, i, sent) @@ [sent |-> sent]
         [] outcome = "neterr" ->
              remove_and_continue(
                  notify_owner(s0, uid, send_failed_text(msg.chat_id, ERR_NET)),
                  snap, i, sent) @@ [sent |-> sent]

\* flush_message_queue up to its first pacing delay (lines 181-195)
flush_message_queue(s) ==
    IF s.queue = <<>> THEN [s |-> s, idx |-> 1, status |-> "done", snap |-> <<>>]
    ELSE flush_loop(s, s.queue, 1, {}) @@ [snap |-> s.queue]

\* ----------------------------------------------------------------- prompt

\* load_context() without a context.txt
CONTEXT == <<"Default context">>

\* mutant: the prompt leaves LEARNED_CONTEXT out
build_prompt_unlearned(s, chat_id, user_message) ==
    [context |-> CONTEXT, learned |-> <<>>,
     history |-> load_chat_history(s.hist, chat_id, HISTORY_LIMIT),
     question |-> user_message]

\* The prompt of lines 258 and 309, by its parts: the static context, the
\* fragments of LEARNED_CONTEXT, the recent history of the chat and the
\* user's question.
build_prompt(s, chat_id, user_message) ==
    [context |-> CONTEXT, learned |-> s.learned,
     history |-> load_chat_history(s.hist, chat_id, HISTORY_LIMIT),
     question |-> user_message]

\* no prompt: the task is not in a generation call
NoPrompt == [context |-> <<>>, learned |-> <<>>, history |-> <<>>, question |-> <<>>]

\* ---------------------------------------------------------------- updates
\* An update is a record: update_id (0: the update carries none), kind
\* ("message", "business_message" or "other"), and the fields of its message.

\* A task holds its update, where it is suspended (pc) and the locals of the
\* coroutines it is in; gens, apps, learns and enqs observe what its handler
\* has done so far: upstream attempts started, chat_history rows appended,
\* LEARNED_CONTEXT fragments appended, send_message calls accepted; flushes
\* counts its calls of flush_message_queue.  Of its call of
\* generate_response_with_retry it holds the argument max_retries, and
\* observes how the latest attempt ended (last), the text the call returned
\* and the failure it raised.  While the call runs the task holds the prompt
\* its handler built, and known observes how many fragments LEARNED_CONTEXT
\* held when the latest attempt was started.
\* fault names the storage call whose failure ended the task, if one did.
NoTask == [pc |-> "done", attempt |-> 0, wake |-> 0, snap |-> <<>>, idx |-> 1,
           sent |-> {}, gens |-> 0, apps |-> 0, learns |-> 0, enqs |-> 0,
           flushes |-> 0, max_retries |-> 0, last |-> "none", returned |-> <<>>,
           raised |-> "none", prompt |-> NoPrompt, known |-> 0, fault |-> "none"]

Accepted(cs) == Cardinality({k \in 1..Len(cs) : cs[k].accepted})

\* the observations of a task brought up to date after a run of its handler
\* that led from shared state s0 to s1
Account(task, s0, s1) ==
    [task EXCEPT !.apps = @ + Len(s1.hist) - Len(s0.hist),
                 !.learns = @ + Len(s1.learned) - Len(s0.learned),
                 !.enqs = @ + Accepted(s1.calls)]

\* A task that has ended (pc "done", or "crashed" by an uncaught exception)
\* keeps none of its locals.
Finished(task, pc) ==
    [task EXCEPT !.pc = pc, !.attempt = 0, !.wake = 0, !.snap = <<>>, !.idx = 1,
                 !.sent = {}, !.prompt = NoPrompt, !.known = 0]

\* mutant: process_update returns when its handler has returned
EnterFlush_skipped(s, task) == [s |-> s, task |-> Finished(task, "done")]

\* The task's state once its handler has returned: flush_message_queue is
\* entered (line 337) and runs up to its first pacing delay.
EnterFlush(s, task) ==
    LET r == flush_message_queue(s)
    IN [s |-> r.s,
        task |-> IF r.status = "sleep"
                 THEN [task EXCEPT !.pc = "flush", !.attempt = 0,
                                   !.wake = s.now + REPLY_DELAY,
                                   !.snap = r.snap, !.idx = r.idx, !.sent = {},
                                   !.flushes = @ + 1,
                                   !.prompt = NoPrompt, !.known = 0]
                 ELSE [Finished(task, r.status) EXCEPT !.flushes = @ + 1]]

\* The handler builds the prompt (lines 256-258, 307-309) and calls
\* generate_response_with_retry, whose first upstream attempt is started.
EnterGenerate(s, task) ==
    [s |-> s, task |-> [task EXCEPT !.pc = "gen", !.attempt = 0, !.gens = 1,
                                    !.max_retries = MAX_RETRIES,
                                    !.prompt = build_prompt(s, task.upd.chat,
                                                            strip(task.upd.text)),
                                    !.known = Len(s.learned)]]

error_text(u, err) ==
    IF u.kind = "business_message"
    THEN <<"Error handling business message from chat ", u.chat, ": ", err>>
    ELSE <<"Error handling direct message from chat ", u.chat, ": ", err>>

\* mutant: whoever writes through the business connection teaches the bot
handle_business_message_learns(s, u, task) ==
    IF ~u.hasText THEN EnterFlush(s, task)
    ELSE EnterFlush([save_message_to_db(s, u.update_id, u.chat, "user", u.text)
                        EXCEPT !.learned = Append(@, u.text)], task)

\* handle_business_message up to its first suspension (lines 230-261)
handle_business_message(s, u, task) ==
    IF ~u.hasText THEN EnterFlush(s, task)
    ELSE IF u.sender = OWNER_CHAT_ID
    THEN EnterFlush([save_message_to_db(s, u.update_id, u.chat, "user", u.text)
                        EXCEPT !.learned = Append(@, u.text)], task)
    ELSE IF strip(u.text) = <<>>
    THEN EnterFlush(send_message(s, u.update_id, u.chat, NOTICE_TEXT, u.bcid), task)
    ELSE EnterGenerate(save_message_to_db(s, u.update_id, u.chat, "user", strip(u.text)), task)

\* handle_direct_message up to its first suspension (lines 269-312)
handle_direct_message(s, u, task) ==
    IF ~u.hasText THEN EnterFlush(s, task)
    ELSE IF u.sender = OWNER_CHAT_ID
    THEN EnterFlush([save_message_to_db(s, u.update_id, u.chat, "user", u.text)
                        EXCEPT !.learned = Append(@, u.text)], task)
    ELSE IF u.date < s.now - STALE_SECONDS
    THEN EnterFlush(s, task)
    ELSE IF startswith_start(strip(u.text))
    THEN EnterFlush(save_message_to_db(
                        send_message(s, u.update_id, u.chat, welcome_text(u.first_name), NoBc),
                        u.update_id, u.chat, "bot", welcome_text(u.first_name)), task)
    ELSE IF strip(u.text) = <<>>
    THEN EnterFlush(send_message(s, u.update_id, u.chat, NOTICE_TEXT, NoBc), task)
    ELSE EnterGenerate(save_message_to_db(s, u.update_id, u.chat, "user", strip(u.text)), task)

\* the business_connection_id the handler passes to send_message
ReplyBc(u) == IF u.kind = "business_message" THEN u.bcid ELSE NoBc

\* The handler after a successful generation (lines 262-263, 313-314).
reply_success(s, u, task, response) ==
    EnterFlush(save_message_to_db(
                   send_message(s, u.update_id, u.chat, response, ReplyBc(u)),
                   u.update_id, u.chat, "bot", response), task)

\* mutant: the chat is told what the owner is told
reply_failure_raw(s, u, task, err) ==
    EnterFlush(send_message(notify_owner(s, u.update_id, error_text(u, err)),
                            u.update_id, u.chat, error_text(u, err), ReplyBc(u)), task)

\* The handler's except branch (lines 264-267, 315-318).
reply_failure(s, u, task, err) ==
    EnterFlush(send_message(notify_owner(s, u.update_id, error_text(u, err)),
                            u.update_id, u.chat, APOLOGY_TEXT, ReplyBc(u)), task)

\* process_update up to its first suspension (lines 320-337)
process_update(s, u) ==
    LET task == NoTask @@ [upd |-> u]
    IN IF u.update_id = 0
       THEN [s |-> s, task |-> [task EXCEPT !.pc = "noid"]]
       ELSE IF is_update_processed(s.proc, u.update_id)
       THEN [s |-> s, task |-> [task EXCEPT !.pc = "ignored"]]
       ELSE LET s1 == [s EXCEPT !.proc = mark_update_processed(@, u.update_id)]
            IN IF u.kind = "business_message" THEN handle_business_message(s1, u, task)
               ELSE IF u.kind = "message" THEN handle_direct_message(s1, u, task)
               ELSE EnterFlush(s1, task)

\* ------------------------------------------------------------- generation

\* what one upstream attempt can end in
GenOutcomes == {"ok", "timeout", "error"}

\* the texts the upstream model may answer with
Responses == {<<"reply">>}

ERR_TIMEOUT == "Gemini API timed out after all retries"
ERR_UPSTREAM == "upstream error"

\* 2 ** attempt
RECURSIVE Pow2(_)
Pow2(n) == IF n = 0 THEN 1 ELSE 2 * Pow2(n - 1)

\* mutant: the loop allows one attempt more than max_retries
generate_step_extra(s, task, outcome, response) ==
    IF outcome = "ok"
    THEN reply_success(s, task.upd, [task EXCEPT !.last = outcome, !.returned = response],
                       response)
    ELSE IF task.attempt < task.max_retries
    THEN [s |-> s, task |-> [task EXCEPT !.pc = "backoff", !.last = outcome,
                                         !.wake = s.now + Pow2(task.attempt)]]
    ELSE LET err == IF outcome = "timeout" THEN ERR_TIMEOUT ELSE ERR_UPSTREAM
         IN reply_failure(s, task.upd, [task EXCEPT !.last = outcome, !.raised = err], err)

\* generate_response_with_retry after attempt `task.attempt` ended in
\* `outcome` (lines 133-152), and the handler after it when it returns or
\* raises.
generate_step(s, task, outcome, response) ==
    IF outcome = "ok"
    THEN reply_success(s, task.upd, [task EXCEPT !.last = outcome, !.returned = response],
                       response)
    ELSE IF task.attempt < task.max_retries - 1
    THEN [s |-> s, task |-> [task EXCEPT !.pc = "backoff", !.last = outcome,
                                         !.wake = s.now + Pow2(task.attempt)]]
    ELSE LET err == IF outcome = "timeout" THEN ERR_TIMEOUT ELSE ERR_UPSTREAM
         IN reply_failure(s, task.upd, [task EXCEPT !.last = outcome, !.raised = err], err)

\* ----------------------------------------------------------------- inputs

\* update ids are issued in increasing order
NextUpdateId ==
    LET used == {tasks[i].upd.update_id : i \in 1..Len(tasks)} \cup processed_updates \cup {0}
    IN (CHOOSE m \in used : \A x \in used : x <= m) + 1

\* message dates: a message sent as the run starts (never stale within
\* MaxElapsed), and one sent STALE_SECONDS + 1 seconds before (always stale)
DateNew == StartTime
DateOld == StartTime - (STALE_SECONDS + 1)

Msg(kind, sender, chat, hasText, text, date) ==
    [kind |-> kind, sender |-> sender, chat |-> chat, hasText |-> hasText,
     text |-> text, date |-> date, first_name |-> "Ana",
     bcid |-> IF kind = "business_message" THEN "bc1" ELSE NoBc]

\* The shapes of update the webhook may deliver.  In one run the customer
\* writes either directly or through the business connection; the owner may
\* write in both.
DirectShapes ==
    {Msg("message", "A", "A", TRUE, t, DateNew) : t \in {<<"hi">>, <<"/start">>, <<" ">>}}
    \cup {Msg("message", "A", "A", TRUE, <<"hi">>, DateOld),
          Msg("message", "A", "A", FALSE, <<>>, DateNew),
          Msg("message", "O", "O", TRUE, <<"rule">>, DateNew)}

BusinessShapes ==
    {Msg("business_message", "A", "A", TRUE, t, DateNew) : t \in {<<"hi">>, <<" ">>}}
    \cup {Msg("business_message", "O", "A", TRUE, <<"rule">>, DateNew),
          Msg("business_message", "A", "A", FALSE, <<>>, DateNew),
          Msg("other", "A", "A", FALSE, <<>>, DateNew),
          Msg("message", "O", "O", TRUE, <<"rule">>, DateNew)}

\* an update without update_id (0) is dropped whatever it holds
FreshUpdates ==
    {sh @@ [update_id |-> NextUpdateId] : sh \in catalogue}
    \cup {Msg("other", "A", "A", FALSE, <<>>, DateNew) @@ [update_id |-> 0]}

\* an update the provider delivers again is the update it delivered before
Redeliveries == {tasks[i].upd : i \in 1..Len(tasks)}

\* ------------------------------------------------------------------ actions

\* mutant: generate_content is called in the thread of the event loop
Yields_blocking(pc) == pc \in {"backoff", "flush"}

\* The awaits at which a task gives the event loop to the others: the
\* upstream attempt, which runs in a worker thread (asyncio.to_thread, line
\* 137), and the two asyncio.sleep.
Yields(pc) == pc \in {"gen", "backoff", "flush"}

\* The event loop can start or resume a task: every task that has not ended
\* waits in an await that yields.
LoopFree ==
    \A i \in 1..Len(tasks) :
        tasks[i].pc \in {"gen", "backoff", "flush"} => Yields(tasks[i].pc)

Init ==
    /\ now = StartTime
    /\ processed_updates = {}
    /\ chat_history = <<>>
    /\ chat_timestamps = <<>>
    /\ LEARNED_CONTEXT = <<>>
    /\ BLOCKED_CHATS = {}
    /\ message_queue = <<>>
    /\ tasks = <<>>
    /\ calls = <<>>
    /\ posts = <<>>
    /\ lastAccepted = <<>>
    /\ posted = {}
    /\ attempts = {}
    /\ nextEid = 1
    /\ catalogue \in {DirectShapes, BusinessShapes}
    /\ horizon = StartTime + MaxElapsed

\* WebhookHandler.do_POST: the update becomes a process_update task, which
\* runs up to its first suspension.
Deliver(u) ==
    /\ LoopFree
    /\ Len(tasks) < MaxTasks
    /\ LET r == process_update(Shared, u)
       IN Commit(r.s) /\ tasks' = Append(tasks, Account(r.task, Shared, r.s))
    /\ UNCHANGED now

\* An upstream attempt ends: the task resumes in generate_response_with_retry.
GenResult(i, outcome, response) ==
    /\ tasks[i].pc = "gen"
    /\ LET r == generate_step(Shared, tasks[i], outcome, response)
       IN Commit(r.s) /\ tasks' = [tasks EXCEPT ![i] = Account(r.task, Shared, r.s)]
    /\ UNCHANGED now

\* The backoff sleep is over: the next upstream attempt is started.
BackoffWake(i) ==
    /\ LoopFree
    /\ tasks[i].pc = "backoff"
    /\ now >= tasks[i].wake
    /\ tasks' = [tasks EXCEPT ![i] = [@ EXCEPT !.pc = "gen", !.attempt = @ + 1,
                                               !.gens = @ + 1,
                                               !.known = Len(LEARNED_CONTEXT)]]
    /\ Commit(Shared)
    /\ UNCHANGED now

\* The pacing delay is over: the entry is posted, and the loop runs on to the
\* next delay or to its end.
FlushWake(i, outcome) ==
    /\ LoopFree
    /\ tasks[i].pc = "flush"
    /\ now >= tasks[i].wake
    /\ LET tk == tasks[i]
           r == flush_send(Shared, tk.upd.update_id, tk.snap, tk.idx, tk.sent, outcome)
       IN /\ Commit(r.s)
          /\ tasks' = [tasks EXCEPT ![i] =
                 IF r.status = "sleep"
                 THEN [@ EXCEPT !.idx = r.idx, !.sent = r.sent, !.wake = now + REPLY_DELAY]
                 ELSE Finished(@, r.status)]
    /\ UNCHANGED now

\* Time passes.  A sleeping task whose delay is over resumes before the clock
\* is read again, and the clock is followed only while a duration is being
\* measured: a task sleeps, or a chat is inside its rate-limit window.
Tick ==
    /\ now < horizon
    /\ \A i \in 1..Len(tasks) : tasks[i].pc \in {"flush", "backoff"} => tasks[i].wake > now
    /\ \/ \E i \in 1..Len(tasks) : tasks[i].pc \in {"flush", "backoff"}
       \/ \E c \in DOMAIN chat_timestamps : now - chat_timestamps[c] < MIN_MESSAGE_INTERVAL
    /\ now' = now + TickSeconds
    /\ Commit(Shared)
    /\ UNCHANGED tasks

Next ==
    \/ \E u \in FreshUpdates \cup Redeliveries : Deliver(u)
    \/ \E i \in 1..Len(tasks), o \in GenOutcomes, r \in Responses : GenResult(i, o, r)
    \/ \E i \in 1..Len(tasks) : BackoffWake(i)
    \/ \E i \in 1..Len(tasks), o \in Outcomes : FlushWake(i, o)
    \/ Tick

Spec == Init /\ [][Next]_vars

\* ------------------------------------------------- a run that starts backed up
\* The state after an outage of the transport: MAX_QUEUE_SIZE - 1 updates with
\* a blank text came in for chat A one after the other, and every delivery
\* attempt of their flush passes ended in a connection error.  Each failed
\* attempt leaves an owner notification behind that no running pass holds in
\* its snapshot, so the queue holds one notification per update when the last
\* pass ends; nothing was sent, nobody is blocked, all tasks have ended.

BacklogSize == MAX_QUEUE_SIZE - 1

\* seconds the clock may advance in a run that starts backed up
BacklogElapsed == 4

Backlog ==
    [k \in 1..BacklogSize |->
        [chat_id |-> OWNER_CHAT_ID,
         text |-> send_failed_text(IF k < BacklogSize THEN OWNER_CHAT_ID ELSE "A", ERR_NET),
         bcid |-> NoBc, eid |-> k, uid |-> BacklogSize]]

InitBacklog ==
    /\ now = StartTime
    /\ processed_updates = 1..BacklogSize
    /\ chat_history = <<>>
    /\ chat_timestamps = <<>>
    /\ LEARNED_CONTEXT = <<>>
    /\ BLOCKED_CHATS = {}
    /\ message_queue = Backlog
    /\ tasks = <<>>
    /\ calls = <<>>
    /\ posts = <<>>
    /\ lastAccepted = [c \in Chats |-> 0]
    /\ posted = {}
    /\ attempts = {}
    /\ nextEid = BacklogSize + 1
    /\ catalogue \in {DirectShapes, BusinessShapes}
    /\ horizon = StartTime + BacklogElapsed

SpecBacklog == InitBacklog /\ [][Next]_vars

\* ------------------------------- a run that starts inside a generation call
\* generate_response_with_retry takes its budget as an argument; the handlers
\* pass the default.  Here the run starts where a handler has just called it
\* for the first update, a customer's "hi", with a budget of 1..MaxBudget.
\* While the call runs the owner may teach a rule.

\* the largest max_retries the call is followed with
MaxBudget == 4

\* the shared state at startup
Blank ==
    [now |-> StartTime, proc |-> {}, hist |-> <<>>, ts |-> <<>>, learned |-> <<>>,
     blocked |-> {}, queue |-> <<>>, calls |-> <<>>, posts |-> <<>>,
     lastAcc |-> <<>>, posted |-> {}, att |-> {}, eid |-> 1]

FirstQuestion(shapes) ==
    (CHOOSE sh \in shapes : sh.sender = "A" /\ sh.text = <<"hi">>) @@ [update_id |-> 1]

OwnerShapes(shapes) == {sh \in shapes : sh.sender = OWNER_CHAT_ID}

InitRetry ==
    /\ horizon = StartTime + MaxElapsed
    /\ \E b \in 1..MaxBudget, shapes \in {DirectShapes, BusinessShapes} :
          LET r == process_update(Blank, FirstQuestion(shapes))
          IN /\ catalogue = OwnerShapes(shapes)
             /\ now = r.s.now
             /\ processed_updates = r.s.proc
             /\ chat_history = r.s.hist
             /\ chat_timestamps = r.s.ts
             /\ LEARNED_CONTEXT = r.s.learned
             /\ BLOCKED_CHATS = r.s.blocked
             /\ message_queue = r.s.queue
             /\ calls = r.s.calls
             /\ posts = r.s.posts
             /\ lastAccepted = r.s.lastAcc
             /\ posted = r.s.posted
             /\ attempts = r.s.att
             /\ nextEid = r.s.eid
             /\ tasks = <<[Account(r.task, Blank, r.s) EXCEPT !.max_retries = b]>>

SpecRetry == InitRetry /\ [][Next]_vars

\* --------------------------------------------- the history store on its own
\* save_message_to_db and load_chat_history followed alone: rows are written
\* for either chat, user and bot turns alternating within a chat, while
\* time.time(), the wall clock, moves forward and is at times set back.

\* rows written to chat_history
MaxRows == 6
\* seconds the wall clock moves within above its start
HistoryElapsed == 4

Words == <<"a", "b", "c">>

InitHistory ==
    /\ now = StartTime
    /\ processed_updates = {}
    /\ chat_history = <<>>
    /\ chat_timestamps = <<>>
    /\ LEARNED_CONTEXT = <<>>
    /\ BLOCKED_CHATS = {}
    /\ message_queue = <<>>
    /\ tasks = <<>>
    /\ calls = <<>>
    /\ posts = <<>>
    /\ lastAccepted = <<>>
    /\ posted = {}
    /\ attempts = {}
    /\ nextEid = 1
    /\ catalogue = {}
    /\ horizon = StartTime + HistoryElapsed

SaveRow(chat_id) ==
    /\ Len(chat_history) < MaxRows
    /\ Commit(save_message_to_db(
           Shared, 0, chat_id,
           IF Cardinality(ChatRows(chat_history, chat_id)) % 2 = 0 THEN "user" ELSE "bot",
           <<Words[(Len(chat_history) % Len(Words)) + 1]>>))
    /\ UNCHANGED <<now, tasks>>

ClockForward ==
    /\ now + TickSeconds <= horizon
    /\ now' = now + TickSeconds
    /\ Commit(Shared)
    /\ UNCHANGED tasks

ClockBack ==
    /\ now > StartTime
    /\ now' = now - TickSeconds
    /\ Commit(Shared)
    /\ UNCHANGED tasks

NextHistory ==
    \/ \E c \in Chats : SaveRow(c)
    \/ ClockForward
    \/ ClockBack

SpecHistory == InitHistory /\ [][NextHistory]_vars

\* ------------------------------------------------ a run with late messages
\* Direct messages of the customer and of the owner that are, when the run
\* starts, fresh, exactly STALE_SECONDS old, or older.  While the clock moves
\* on, the message that was STALE_SECONDS old becomes stale.

\* seconds the clock may advance in a run with late messages
StaleElapsed == 4

DateEdge == StartTime - STALE_SECONDS

\* the variables of the shared state hold the state s
InState(s) ==
    /\ now = s.now
    /\ processed_updates = s.proc
    /\ chat_history = s.hist
    /\ chat_timestamps = s.ts
    /\ LEARNED_CONTEXT = s.learned
    /\ BLOCKED_CHATS = s.blocked
    /\ message_queue = s.queue
    /\ calls = s.calls
    /\ posts = s.posts
    /\ lastAccepted = s.lastAcc
    /\ posted = s.posted
    /\ attempts = s.att
    /\ nextEid = s.eid

StaleShapes ==
    {Msg("message", "A", "A", TRUE, <<"hi">>, d) : d \in {DateOld, DateEdge, DateNew}}
    \cup {Msg("message", "O", "O", TRUE, <<"rule">>, d) : d \in {DateOld, DateEdge, DateNew}}

InitStale ==
    /\ InState(Blank)
    /\ tasks = <<>>
    /\ catalogue = StaleShapes
    /\ horizon = StartTime + StaleElapsed

SpecStale == InitStale /\ [][Next]_vars

\* ------------------------------------------------- a run with storage failures
\* A call into sqlite3 may raise (the file is locked or unreadable, the disk
\* is full): connect, execute and commit raise before the statement has taken
\* effect.  process_update and the handlers call the storage functions
\* outside any try, so the failure ends the task.  The calls followed here
\* are those of a task's first run: the dedup lookup (line 327), the marking
\* (line 331) and the handler's first history append (lines 240, 253, 279,
\* 297, 304).

ERR_STORAGE == "sqlite3.OperationalError"

StorageCalls == {"is_update_processed", "mark_update_processed", "save_message_to_db"}

\* seconds the clock may advance in a run with storage failures
FaultElapsed == 4

\* the handler of update u, run in state s, calls save_message_to_db before
\* it suspends
SavesRow(s, u) ==
    /\ u.kind \in {"message", "business_message"}
    /\ u.hasText
    /\ \/ u.sender = OWNER_CHAT_ID
       \/ /\ u.kind = "business_message"
          /\ strip(u.text) # <<>>
       \/ /\ u.kind = "message"
          /\ u.date >= s.now - STALE_SECONDS
          /\ strip(u.text) # <<>>

\* process_update of u in state s gets as far as the storage call `at`
ReachesCall(s, u, at) ==
    /\ u.update_id # 0
    /\ at # "is_update_processed" => ~is_update_processed(s.proc, u.update_id)
    /\ at = "save_message_to_db" => SavesRow(s, u)

\* the task ended by the exception the storage call `at` raised
Failed(task, at) == [Finished(task, "crashed") EXCEPT !.fault = at]

\* mutant: the update is marked although the lookup failed
process_update_failing_marked(s, u, at) ==
    [s |-> [s EXCEPT !.proc = mark_update_processed(@, u.update_id)],
     task |-> Failed(NoTask @@ [upd |-> u], at)]

\* process_update of u when the storage call `at` raises: what was done
\* before the call stays done, and nothing after it is run, the flush of
\* line 337 included.
process_update_failing(s, u, at) ==
    LET task == Failed(NoTask @@ [upd |-> u], at)
        s1 == [s EXCEPT !.proc = mark_update_processed(@, u.update_id)]
    IN IF at \in {"is_update_processed", "mark_update_processed"}
       THEN [s |-> s, task |-> task]
       ELSE IF /\ u.kind = "message" /\ u.sender # OWNER_CHAT_ID
               /\ startswith_start(strip(u.text))
       THEN [s |-> send_message(s1, u.update_id, u.chat, welcome_text(u.first_name), NoBc),
             task |-> task]
       ELSE [s |-> s1, task |-> task]

\* WebhookHandler.do_POST, the storage call `at` of the new task failing
DeliverFailing(u, at) ==
    /\ LoopFree
    /\ Len(tasks) < MaxTasks
    /\ ReachesCall(Shared, u, at)
    /\ LET r == process_update_failing(Shared, u, at)
       IN Commit(r.s) /\ tasks' = Append(tasks, Account(r.task, Shared, r.s))
    /\ UNCHANGED now

\* The handler after a successful generation when the append of the bot turn
\* raises (lines 262-263, 313-314): the reply has been handed to
\* send_message, the failure is caught by the handler's except branch.
generate_step_failing(s, task, response) ==
    reply_failure(send_message(s, task.upd.update_id, task.upd.chat, response,
                               ReplyBc(task.upd)),
                  task.upd,
                  [task EXCEPT !.last = "ok", !.returned = response,
                               !.raised = ERR_STORAGE, !.fault = "save_message_to_db"],
                  ERR_STORAGE)

\* An upstream attempt ends well, and the append of the bot turn fails.
GenResultFailing(i, response) ==
    /\ tasks[i].pc = "gen"
    /\ LET r == generate_step_failing(Shared, tasks[i], response)
       IN Commit(r.s) /\ tasks' = [tasks EXCEPT ![i] = Account(r.task, Shared, r.s)]
    /\ UNCHANGED now

InitFault ==
    /\ InState(Blank)
    /\ tasks = <<>>
    /\ catalogue \in {DirectShapes, BusinessShapes}
    /\ horizon = StartTime + FaultElapsed

NextFault ==
    \/ Next
    \/ \E u \in FreshUpdates \cup Redeliveries, at \in StorageCalls : DeliverFailing(u, at)
    \/ \E i \in 1..Len(tasks), r \in Responses : GenResultFailing(i, r)

SpecFault == InitFault /\ [][NextFault]_vars

\* ---------------------------------------------------- a run with two customers
\* Customer A asks a question; a second customer, B, writes in a chat of
\* their own.

\* seconds the clock may advance in a run with two customers
TwoElapsed == 8

TwoShapes ==
    {Msg("message", "A", "A", TRUE, <<"hi">>, DateNew)}
    \cup {Msg("message", "B", "B", TRUE, t, DateNew) : t \in {<<"hi">>, <<"/start">>, <<" ">>}}

InitTwo ==
    /\ InState(Blank)
    /\ tasks = <<>>
    /\ catalogue = TwoShapes
    /\ horizon = StartTime + TwoElapsed

SpecTwo == InitTwo /\ [][Next]_vars

\* ------------------------------------------------ a run with start commands
\* The customer writes directly or through the business connection: the
\* start command alone, the start command followed by a word, or a question.

\* seconds the clock may advance in a run with start commands
StartElapsed == 4

StartShapes ==
    {Msg("message", "A", "A", TRUE, t, DateNew) :
        t \in {<<"/start">>, <<"/start", "now">>, <<"hi">>}}
    \cup {Msg("business_message", "A", "A", TRUE, t, DateNew) : t \in {<<"/start">>, <<"hi">>}}

InitStart ==
    /\ InState(Blank)
    /\ tasks = <<>>
    /\ catalogue = StartShapes
    /\ horizon = StartTime + StartElapsed

SpecStart == InitStart /\ [][Next]_vars

\* ------------------------------------------------------------ properties

Ended(i) == tasks[i].pc \in {"done", "ignored", "noid", "crashed"}

\* the task before task j that was given the same update
Earlier(j) == {i \in 1..(j - 1) : tasks[i].upd.update_id = tasks[j].upd.update_id}

RowsOf(uid) == {k \in 1..Len(chat_history) : chat_history[k].uid = uid}

\* C1: a step that hands process_update an update whose update_id is already
\* in processed_updates changes none of chat_history, message_queue,
\* processed_updates, LEARNED_CONTEXT, chat_timestamps and BLOCKED_CHATS,
\* calls send_message never, posts nothing, starts no generation, and the
\* task ends on the spot.
C1_RedeliveryHasNoEffect ==
    [][(/\ Len(tasks') = Len(tasks) + 1
        /\ tasks'[Len(tasks')].upd.update_id \in processed_updates)
       => /\ UNCHANGED <<chat_history, message_queue, processed_updates,
                         LEARNED_CONTEXT, chat_timestamps, BLOCKED_CHATS>>
          /\ calls' = <<>> /\ posts' = <<>>
          /\ tasks'[Len(tasks')].pc = "ignored"
          /\ tasks'[Len(tasks')].gens = 0]_vars

\* C1 witness: an update that was processed to its end, with a reply sent
\* and history written, has been delivered again and ignored.
C1_Witness ==
    \E j \in 1..Len(tasks) : \E i \in Earlier(j) :
        /\ tasks[i].pc = "done" /\ tasks[i].apps = 2 /\ tasks[i].enqs = 1
        /\ tasks[j].pc = "ignored"
        /\ message_queue = <<>>

\* C2 as stated: once an update has been fed twice and both tasks have
\* ended, the two deliveries together made exactly one chat_history append
\* and at most one accepted send_message call.
C2_ExactlyOneAppend ==
    \A j \in 1..Len(tasks) : \A i \in Earlier(j) :
        (tasks[j].upd.update_id # 0 /\ Ended(i) /\ Ended(j))
        => /\ tasks[i].apps + tasks[j].apps = 1
           /\ tasks[i].enqs + tasks[j].enqs <= 1

\* C2 amended: feeding an update twice has the effects of feeding it once.
\* The second delivery makes no chat_history append, no LEARNED_CONTEXT
\* append, no send_message call and no generation call; the rows written for
\* the update are those of its first delivery, at most two (the user turn
\* and the bot turn).
C2_SecondDeliveryAddsNothing ==
    \A j \in 1..Len(tasks) :
        /\ (tasks[j].upd.update_id # 0 /\ Earlier(j) # {})
           => /\ tasks[j].apps = 0 /\ tasks[j].enqs = 0
              /\ tasks[j].learns = 0 /\ tasks[j].gens = 0
        /\ (tasks[j].upd.update_id # 0 /\ Earlier(j) = {})
           => /\ Cardinality(RowsOf(tasks[j].upd.update_id)) = tasks[j].apps
              /\ tasks[j].apps <= 2

\* C2 witness: an update fed twice, both tasks ended, whose first delivery
\* wrote the user turn and the bot turn.
C2_Witness ==
    \E j \in 1..Len(tasks) : \E i \in Earlier(j) :
        /\ Ended(i) /\ Ended(j)
        /\ tasks[i].apps = 2 /\ tasks[j].apps = 0
        /\ Cardinality(RowsOf(tasks[j].upd.update_id)) = 2

\* C3: whenever a history append, a LEARNED_CONTEXT append, an accepted
\* enqueue or a generation call caused by an update has happened, the
\* update's id is in processed_updates.
C3_MarkedBeforeEffects ==
    /\ \A i \in 1..Len(tasks) :
          (tasks[i].apps > 0 \/ tasks[i].learns > 0 \/ tasks[i].enqs > 0 \/ tasks[i].gens > 0)
          => tasks[i].upd.update_id \in processed_updates
    /\ \A k \in 1..Len(chat_history) : chat_history[k].uid \in processed_updates
    /\ \A k \in 1..Len(message_queue) : message_queue[k].uid \in processed_updates

\* C3 witness: an owner message has been learned and written to the history,
\* and another update's generation call is in flight.
C3_Witness ==
    /\ \E i \in 1..Len(tasks) : tasks[i].learns = 1 /\ tasks[i].apps = 1
    /\ \E i \in 1..Len(tasks) : tasks[i].pc = "gen" /\ tasks[i].apps = 1

\* tasks given update uid that went past the dedup check
Passed(uid) == {i \in 1..Len(tasks) : tasks[i].upd.update_id = uid /\ tasks[i].pc # "ignored"}

\* C4: of the tasks given the same update_id, at most one goes past the
\* dedup check, whatever the first is suspended in when the others start.
C4_OnePassesDedup ==
    \A i \in 1..Len(tasks) :
        tasks[i].upd.update_id # 0 => Cardinality(Passed(tasks[i].upd.update_id)) <= 1

\* C4 witness: the second task for an update was started and ignored while
\* the first was suspended (in a generation attempt, a backoff or a pacing
\* delay).
C4_Witness ==
    \E j \in 1..Len(tasks) : \E i \in Earlier(j) :
        /\ tasks[i].pc \in {"gen", "backoff", "flush"}
        /\ tasks[j].pc = "ignored"

\* the send_message calls of the last step
Calls == {calls[k] : k \in 1..Len(calls)}

\* the sendMessage requests of the last step
Posts == {posts[k] : k \in 1..Len(posts)}

\* C5 as stated: an accepted send_message call for a chat comes at least
\* MIN_MESSAGE_INTERVAL seconds after the previous accepted call for that
\* chat, so of two calls within the interval at most one is accepted.
C5_OneAcceptPerInterval ==
    \A c \in Calls :
        (c.accepted /\ c.hasPrev) => c.time - c.prev >= MIN_MESSAGE_INTERVAL

\* C6: a send_message call for a chat that is in BLOCKED_CHATS is rejected,
\* and no step adds a queue entry for a chat that was in BLOCKED_CHATS
\* before the step.
C6_BlockedChatRejected ==
    /\ [](\A c \in Calls : c.blocked => ~c.accepted)
    /\ [][\A b \in BLOCKED_CHATS :
            /\ \A k \in 1..Len(calls') : calls'[k].chat_id = b => ~calls'[k].accepted
            /\ {message_queue'[k].eid : k \in {n \in 1..Len(message_queue') :
                                                  message_queue'[n].chat_id = b}}
               \subseteq {message_queue[k].eid : k \in 1..Len(message_queue)}]_vars

\* C6 witness: a handler's send_message call for a chat blocked by an earlier
\* delivery attempt has been rejected.
C6_Witness ==
    /\ "A" \in BLOCKED_CHATS
    /\ posts = <<>>
    /\ \E c \in Calls : c.chat_id = "A" /\ c.blocked /\ ~c.accepted

\* C7: the queue never holds more than MAX_QUEUE_SIZE entries, and a
\* send_message call that finds MAX_QUEUE_SIZE entries is rejected.
C7_QueueBound ==
    /\ Len(message_queue) <= MAX_QUEUE_SIZE
    /\ \A c \in Calls : c.qlen >= MAX_QUEUE_SIZE => ~c.accepted

\* C7 witness: during a flush pass, with another task suspended, the owner
\* notification of a failed attempt found the queue full and was dropped,
\* its chat being neither blocked nor rate limited.
C7_Witness ==
    /\ posts # <<>>
    /\ Len(tasks) = 2
    /\ \E c \in Calls :
          /\ c.chat_id = OWNER_CHAT_ID /\ c.qlen = MAX_QUEUE_SIZE /\ ~c.accepted
          /\ ~c.blocked /\ c.time - c.last >= MIN_MESSAGE_INTERVAL

\* the payloads the accepted calls of the last step queued, in call order
RECURSIVE QueuedBy(_)
QueuedBy(cs) ==
    IF cs = <<>> THEN <<>>
    ELSE IF Head(cs).accepted
         THEN <<[chat_id |-> Head(cs).chat_id, text |-> Head(cs).text]>> \o QueuedBy(Tail(cs))
         ELSE QueuedBy(Tail(cs))

Payloads(q) == [k \in 1..Len(q) |-> [chat_id |-> q[k].chat_id, text |-> q[k].text]]

\* C8: a send_message call is rejected exactly when the chat is blocked, or
\* less than MIN_MESSAGE_INTERVAL seconds have passed since the chat's
\* last_message_time, or the queue holds MAX_QUEUE_SIZE entries; and a step
\* in which nothing is posted leaves chat_timestamps and BLOCKED_CHATS as
\* they were and changes message_queue only by appending, at its tail and in
\* call order, one entry per accepted call.
C8_EnqueueGatesAndFrame ==
    /\ [](\A c \in Calls :
            ~c.accepted <=> (\/ c.blocked
                             \/ c.time - c.last < MIN_MESSAGE_INTERVAL
                             \/ c.qlen >= MAX_QUEUE_SIZE))
    /\ [][(posts' = <<>> /\ calls' # <<>>)
          => /\ UNCHANGED <<chat_timestamps, BLOCKED_CHATS>>
             /\ Payloads(message_queue') = Payloads(message_queue) \o QueuedBy(calls')
             /\ \A k \in 1..Len(message_queue) : message_queue'[k] = message_queue[k]]_vars

\* C8 witness: a handler made two calls in one step, the first accepted and
\* the second rejected by the full queue alone.
C8_Witness ==
    /\ posts = <<>>
    /\ Len(calls) = 2
    /\ calls[1].accepted
    /\ ~calls[2].accepted /\ ~calls[2].blocked
    /\ calls[2].time - calls[2].last >= MIN_MESSAGE_INTERVAL
    /\ calls[2].qlen = MAX_QUEUE_SIZE

\* C9 as stated: no queue entry is handed to the transport a second time.
C9_EntryPostedOnce == \A p \in Posts : ~p.again

\* C10: chat_timestamps changes for a chat only in a step that posts an
\* entry for that chat successfully, and then to the time of that step; and
\* every successful post leaves the chat's row at the time of the step and
\* the posted entry out of the queue.
C10_TimestampFollowsSuccess ==
    [][/\ \A c \in Chats :
            get_last_message_time(chat_timestamps', c) # get_last_message_time(chat_timestamps, c)
            => \E k \in 1..Len(posts') : posts'[k].chat_id = c /\ posts'[k].outcome = "ok"
       /\ DOMAIN chat_timestamps \subseteq DOMAIN chat_timestamps'
       /\ \A k \in 1..Len(posts') :
            posts'[k].outcome = "ok"
            => /\ posts'[k].chat_id \in DOMAIN chat_timestamps'
               /\ chat_timestamps'[posts'[k].chat_id] = now'
               /\ \A n \in 1..Len(message_queue') : message_queue'[n].eid # posts'[k].eid]_vars

\* C10 witness: a flush pass posted an apology successfully, the chat's row
\* holds the time of the post and the entry has left the queue, after the
\* attempt for the owner's chat had failed, leaving no row for that chat and
\* a notification in the queue.
C10_Witness ==
    /\ \E p \in Posts : p.outcome = "ok" /\ p.chat_id = "A" /\ p.text = APOLOGY_TEXT
    /\ "A" \in DOMAIN chat_timestamps /\ chat_timestamps["A"] = now
    /\ OWNER_CHAT_ID \notin DOMAIN chat_timestamps
    /\ Len(message_queue) = 1
    /\ message_queue[1].text = send_failed_text(OWNER_CHAT_ID, ERR_NET)

\* the identities of the entries in a queue
Eids(q) == {q[k].eid : k \in 1..Len(q)}

\* C11: when the transport answers a delivery attempt with HTTP 400, the
\* step leaves the entry's chat_id in BLOCKED_CHATS and the entry out of the
\* queue, and it has called send_message for the owner's chat with the
\* notification of that rejection.
C11_PermanentRejection ==
    \A p \in Posts :
        p.outcome = "http400"
        => /\ p.chat_id \in BLOCKED_CHATS
           /\ p.eid \notin Eids(message_queue)
           /\ \E c \in Calls : /\ c.chat_id = OWNER_CHAT_ID
                                /\ c.text = blocked_text(p.chat_id, ERR_HTTP)

\* C11 witness: an entry for chat A was rejected with HTTP 400; A is blocked,
\* the entry is gone and the notification for the owner is the one entry in
\* the queue.
C11_Witness ==
    /\ \E p \in Posts : p.outcome = "http400" /\ p.chat_id = "A" /\ ~p.again
    /\ BLOCKED_CHATS = {"A"}
    /\ Len(message_queue) = 1
    /\ message_queue[1].chat_id = OWNER_CHAT_ID
    /\ message_queue[1].text = blocked_text("A", ERR_HTTP)

\* C12 as stated: an entry whose delivery attempt ended in a transient error
\* is never handed to the transport again.
C12_NoAttemptAfterTransientError == \A p \in Posts : ~p.retried

\* C13: a flush pass makes no delivery attempt for an entry whose
\* (chat_id, text) pair it has already delivered successfully, so a pass
\* delivers no pair twice; and every entry of its snapshot that the pass has
\* gone past, skipped ones included, is out of the queue.
C13_IntraBatchDedup ==
    /\ \A p \in Posts : ~p.dup
    /\ \A i \in 1..Len(tasks) :
          tasks[i].pc = "flush"
          => \A k \in 1..(tasks[i].idx - 1) : tasks[i].snap[k].eid \notin Eids(message_queue)

\* C13 witness: a pass delivered a notice, and the second entry with the same
\* chat_id and text left the queue without ever being handed to the
\* transport.
C13_Witness ==
    /\ \E p \in Posts : p.outcome = "ok" /\ p.text = NOTICE_TEXT /\ ~p.again
    /\ message_queue = <<>>
    /\ \E e \in 1..(nextEid - 1) : e \notin posted

\* C14 as stated: no entry is handed to the transport while its chat_id is
\* in BLOCKED_CHATS.
C14_NoAttemptForBlockedChat == \A p \in Posts : ~p.blocked

\* C15 as stated: every update that has finished, whatever it ended in, had
\* flush_message_queue called for it.
C15_FlushAfterEveryUpdate ==
    \A i \in 1..Len(tasks) : Ended(i) => tasks[i].flushes = 1

\* C15 amended: process_update calls flush_message_queue exactly once, after
\* the handler has returned, for every update that went past the dedup
\* check, whatever the handler did with it; for an update without update_id
\* and for an update rejected as already processed it returns without
\* calling it.
C15_FlushAfterHandledUpdate ==
    \A i \in 1..Len(tasks) :
        /\ tasks[i].pc \in {"noid", "ignored", "gen", "backoff"} => tasks[i].flushes = 0
        /\ tasks[i].pc \in {"flush", "done", "crashed"} => tasks[i].flushes = 1

\* C15 witness: a stale message was discarded by its handler and flush was
\* called for it, and its redelivery ended without a flush.
C15_Witness ==
    \E j \in 1..Len(tasks) : \E i \in Earlier(j) :
        /\ tasks[i].upd.kind = "message" /\ tasks[i].upd.date = DateOld
        /\ tasks[i].pc = "done" /\ tasks[i].flushes = 1 /\ tasks[i].apps = 0
        /\ tasks[j].pc = "ignored" /\ tasks[j].flushes = 0

\* C16: a call of generate_response_with_retry makes at most max_retries
\* attempts; a further attempt is started only after a failed one, a timeout
\* counting like an error; the call returns the text of its first
\* successful attempt and makes no attempt after it; it fails only when
\* max_retries attempts have failed, with the timeout failure if the last
\* attempt timed out and with that attempt's error otherwise.
C16_RetryBudget ==
    /\ [](\A i \in 1..Len(tasks) :
            LET t == tasks[i]
            IN /\ t.gens <= t.max_retries
               /\ t.pc = "gen" => t.gens = t.attempt + 1
               /\ t.pc = "backoff" => /\ t.last \in {"timeout", "error"}
                                      /\ t.gens = t.attempt + 1
                                      /\ t.gens < t.max_retries
               /\ (t.gens > 0 /\ t.pc \in {"flush", "done", "crashed"})
                  => \/ /\ t.last = "ok" /\ t.raised = "none"
                        /\ t.returned \in Responses
                        /\ \E k \in RowsOf(t.upd.update_id) :
                              /\ chat_history[k].role = "bot"
                              /\ chat_history[k].content = t.returned
                     \/ /\ t.last = "timeout" /\ t.raised = ERR_TIMEOUT
                        /\ t.gens = t.max_retries
                     \/ /\ t.last = "error" /\ t.raised = ERR_UPSTREAM
                        /\ t.gens = t.max_retries)
    /\ [][\A i \in 1..Len(tasks) :
            tasks'[i].gens # tasks[i].gens
            => /\ tasks[i].pc = "backoff" /\ tasks[i].last # "ok"
               /\ tasks'[i].gens = tasks[i].gens + 1]_vars

\* C16 witness: a call with a budget other than the default has failed with
\* the timeout failure after MaxBudget attempts, and the handler has passed
\* that failure on to the owner.
C16_Witness ==
    \E i \in 1..Len(tasks) :
        /\ tasks[i].max_retries = MaxBudget /\ tasks[i].gens = MaxBudget
        /\ tasks[i].raised = ERR_TIMEOUT
        /\ \E c \in Calls : c.text = error_text(tasks[i].upd, ERR_TIMEOUT)

\* the largest limit load_chat_history is asked with
MaxLimit == 5

\* C17: for every chat and every limit, load_chat_history returns
\* min(limit, rows of the chat) entries, the role and content of distinct
\* rows of that chat, none of them older than a row of the chat it leaves
\* out, with timestamps non-decreasing from first to last; and no step
\* removes or changes a row of chat_history.
C17_RecentHistory ==
    /\ [](\A c \in Chats, limit \in 0..MaxLimit :
            \A ids \in {recent_ids(chat_history, c, limit)} :
            \A r \in {load_chat_history(chat_history, c, limit)} :
            \A K \in {ChatRows(chat_history, c)} :
            \A got \in {{ids[p] : p \in 1..Len(ids)}} :
               /\ Len(r) = Len(ids) /\ Len(r) <= limit
               /\ Len(r) = limit \/ Len(r) = Cardinality(K)
               /\ got \subseteq K /\ Cardinality(got) = Len(ids)
               /\ \A p \in 1..Len(r) :
                     /\ r[p].role = chat_history[ids[p]].role
                     /\ r[p].content = chat_history[ids[p]].content
               /\ \A k \in K \ got : \A g \in got :
                     chat_history[k].timestamp <= chat_history[g].timestamp
               /\ \A p, q \in 1..Len(ids) :
                     p < q => chat_history[ids[p]].timestamp <= chat_history[ids[q]].timestamp)
    /\ [][/\ Len(chat_history') >= Len(chat_history)
          /\ SubSeq(chat_history', 1, Len(chat_history)) = chat_history]_vars

\* C17 witness: chat A has more rows than the default limit, the wall clock
\* was set back before its last row was written, and load_chat_history with
\* the default limit leaves that last row out and returns the first.
C17_Witness ==
    \E ids \in {recent_ids(chat_history, "A", HISTORY_LIMIT)} :
      \E got \in {{ids[p] : p \in 1..Len(ids)}} :
        /\ Cardinality(ChatRows(chat_history, "A")) = HISTORY_LIMIT + 1
        /\ Len(ids) = HISTORY_LIMIT
        /\ Len(chat_history) \notin got
        /\ chat_history[Len(chat_history)].chat_id = "A"
        /\ 1 \in got
        /\ chat_history[ids[1]].timestamp < chat_history[ids[HISTORY_LIMIT]].timestamp

\* C18 as stated: within a chat, the rows of chat_history are in the order
\* in which their updates arrived: no row of a later update comes before a
\* row of an earlier update.
C18_HistoryInArrivalOrder ==
    \A k, l \in 1..Len(chat_history) :
        (k < l /\ chat_history[k].chat_id = chat_history[l].chat_id)
        => chat_history[k].uid <= chat_history[l].uid

\* C19: a step changes LEARNED_CONTEXT only by appending one fragment at its
\* end, and only the step in which process_update is handed a message with
\* text whose sender is OWNER_CHAT_ID, the fragment being that text.
C19_LearnedAppendOnly ==
    [][LEARNED_CONTEXT' # LEARNED_CONTEXT
       => /\ Len(tasks') = Len(tasks) + 1
          /\ tasks'[Len(tasks')].upd.sender = OWNER_CHAT_ID
          /\ tasks'[Len(tasks')].upd.hasText
          /\ tasks'[Len(tasks')].upd.kind \in {"message", "business_message"}
          /\ LEARNED_CONTEXT' = Append(LEARNED_CONTEXT, tasks'[Len(tasks')].upd.text)]_vars

\* C19 witness: a customer's update has run into the failure path of its
\* handler, the owner's message has been learned, and LEARNED_CONTEXT holds
\* that one fragment.
C19_Witness ==
    \E i, j \in 1..Len(tasks) :
        /\ tasks[i].raised # "none"
        /\ tasks[j].learns = 1
        /\ LEARNED_CONTEXT = <<tasks[j].upd.text>>

\* the tasks created after task j that have appended a fragment
LaterLearners(j) == {i \in (j + 1)..Len(tasks) : tasks[i].learns = 1}

Delivered == Len(tasks') = Len(tasks) + 1

\* the task that step created
NewTask == tasks'[Len(tasks')]

\* the update goes past the checks of lines 323 and 327
PassesDedup(u) == u.update_id # 0 /\ u.update_id \notin processed_updates

\* C21: when process_update is handed a direct message of a sender other
\* than the owner whose text is "/start", not yet processed and not stale,
\* with the chat not blocked, not rate limited and the queue not full, the
\* step makes one send_message call, accepted, for that chat with the canned
\* welcome that holds the sender's first_name; the queue grows by that one
\* entry at its tail; and no generation attempt is started.
C21_StartGetsWelcome ==
    [][(/\ Delivered
        /\ PassesDedup(NewTask.upd)
        /\ NewTask.upd.kind = "message" /\ NewTask.upd.hasText
        /\ NewTask.upd.sender # OWNER_CHAT_ID
        /\ NewTask.upd.text = <<"/start">>
        /\ NewTask.upd.date >= now - STALE_SECONDS
        /\ NewTask.upd.chat \notin BLOCKED_CHATS
        /\ now - get_last_message_time(chat_timestamps, NewTask.upd.chat)
              >= MIN_MESSAGE_INTERVAL
        /\ Len(message_queue) < MAX_QUEUE_SIZE)
       => /\ Len(calls') = 1 /\ calls'[1].accepted
          /\ calls'[1].chat_id = NewTask.upd.chat
          /\ calls'[1].text = welcome_text(NewTask.upd.first_name)
          /\ \E k \in 1..Len(calls'[1].text) : calls'[1].text[k] = NewTask.upd.first_name
          /\ Payloads(message_queue') =
                Append(Payloads(message_queue),
                       [chat_id |-> NewTask.upd.chat,
                        text |-> welcome_text(NewTask.upd.first_name)])
          /\ NewTask.gens = 0 /\ NewTask.pc = "flush"]_vars

\* C21 witness: a "/start" of customer Ana has been handled; the welcome for
\* her chat is the entry at the tail of the queue, its flush pass waits for
\* the pacing delay, and no generation attempt was made for the update.
C21_Witness ==
    \E i \in 1..Len(tasks) :
        /\ tasks[i].upd.text = <<"/start">> /\ tasks[i].upd.sender = "A"
        /\ tasks[i].pc = "flush" /\ tasks[i].gens = 0 /\ tasks[i].enqs = 1
        /\ Len(calls) = 1 /\ calls[1].accepted
        /\ calls[1].text = welcome_text("Ana")
        /\ message_queue # <<>>
        /\ message_queue[Len(message_queue)].text = welcome_text("Ana")
        /\ message_queue[Len(message_queue)].chat_id = "A"

\* C22: when process_update is handed a message with text, direct or through
\* the business connection, whose sender is the owner and which is not yet
\* processed, the step appends the text to LEARNED_CONTEXT and a user row
\* with the text to chat_history for the chat of the message, calls
\* send_message never, leaves the queue as it was and starts no generation
\* attempt.
C22_OwnerTextLearned ==
    [][(/\ Delivered
        /\ PassesDedup(NewTask.upd)
        /\ NewTask.upd.kind \in {"message", "business_message"}
        /\ NewTask.upd.hasText
        /\ NewTask.upd.sender = OWNER_CHAT_ID)
       => /\ LEARNED_CONTEXT' = Append(LEARNED_CONTEXT, NewTask.upd.text)
          /\ Len(chat_history') = Len(chat_history) + 1
          /\ SubSeq(chat_history', 1, Len(chat_history)) = chat_history
          /\ chat_history'[Len(chat_history')].chat_id = NewTask.upd.chat
          /\ chat_history'[Len(chat_history')].role = "user"
          /\ chat_history'[Len(chat_history')].content = NewTask.upd.text
          /\ calls' = <<>>
          /\ message_queue' = message_queue
          /\ NewTask.gens = 0 /\ NewTask.pc # "gen"]_vars

\* C22 witness: the owner has written through the business connection into
\* the customer's chat; the text is the one fragment of LEARNED_CONTEXT and
\* the last row of that chat's history, and nothing was queued.
C22_Witness ==
    \E i \in 1..Len(tasks) :
        /\ tasks[i].upd.kind = "business_message"
        /\ tasks[i].upd.sender = OWNER_CHAT_ID /\ tasks[i].upd.chat = "A"
        /\ tasks[i].learns = 1 /\ tasks[i].apps = 1
        /\ tasks[i].enqs = 0 /\ tasks[i].gens = 0
        /\ LEARNED_CONTEXT = <<tasks[i].upd.text>>
        /\ chat_history # <<>>
        /\ chat_history[Len(chat_history)].chat_id = "A"
        /\ chat_history[Len(chat_history)].content = tasks[i].upd.text
        /\ calls = <<>> /\ message_queue = <<>>

\* C23 as stated: a direct message that is more than STALE_SECONDS older
\* than the time process_update is handed it is discarded whoever sent it:
\* its update_id is marked processed, and the step changes neither
\* chat_history nor LEARNED_CONTEXT nor the queue, calls send_message never
\* and starts no generation attempt; a message with text that is exactly
\* STALE_SECONDS old is handled.
C23_StaleDiscardedWhoeverSent ==
    [][(/\ Delivered
        /\ PassesDedup(NewTask.upd)
        /\ NewTask.upd.kind = "message")
       => /\ NewTask.upd.date < now - STALE_SECONDS
             => /\ NewTask.upd.update_id \in processed_updates'
                /\ UNCHANGED <<chat_history, LEARNED_CONTEXT, message_queue>>
                /\ calls' = <<>>
                /\ NewTask.gens = 0
          /\ (NewTask.upd.date = now - STALE_SECONDS /\ NewTask.upd.hasText)
             => \/ NewTask.apps > 0 \/ NewTask.learns > 0
                \/ NewTask.gens > 0 \/ calls' # <<>>]_vars

\* C24 as stated: whenever the generation call has failed on all its
\* attempts, the notification for the owner and the apology for the
\* originating chat are both on their way: both send_message calls of the
\* handler were accepted.
C24_FailureReachesOwnerAndChat ==
    \A i \in 1..Len(tasks) : tasks[i].raised # "none" => tasks[i].enqs = 2

\* C24 amended: in the step in which the generation call of a task fails,
\* after MAX_RETRIES attempts, the handler calls send_message twice: first for
\* the owner's chat with the notification of the failure, then for the
\* originating chat with the fixed apology, never with the error text.  Each
\* of the two is queued only when the gates of send_message accept it and is
\* dropped otherwise.  The step appends no row to chat_history, and no bot
\* row is ever written for that update.
C24_FailurePath ==
    /\ [](\A i \in 1..Len(tasks) :
            tasks[i].raised # "none"
            => /\ tasks[i].gens = MAX_RETRIES
               /\ \A k \in RowsOf(tasks[i].upd.update_id) : chat_history[k].role # "bot")
    /\ [][\A i \in 1..Len(tasks) :
            (tasks[i].raised = "none" /\ tasks'[i].raised # "none")
            => /\ tasks[i].upd.sender # OWNER_CHAT_ID
               /\ Len(calls') = 2
               /\ calls'[1].chat_id = OWNER_CHAT_ID
               /\ calls'[1].text = error_text(tasks[i].upd, tasks'[i].raised)
               /\ calls'[2].chat_id = tasks[i].upd.chat
               /\ calls'[2].text = APOLOGY_TEXT
               /\ \A k \in 1..2 :
                     calls'[k].accepted
                     <=> /\ ~calls'[k].blocked
                         /\ calls'[k].time - calls'[k].last >= MIN_MESSAGE_INTERVAL
                         /\ calls'[k].qlen < MAX_QUEUE_SIZE
               /\ Payloads(message_queue') = Payloads(message_queue) \o QueuedBy(calls')
               /\ chat_history' = chat_history]_vars

\* C24 witness: the third attempt for a customer's question has timed out;
\* the queue holds the notification for the owner and, behind it, the
\* apology for the customer's chat, and the history holds the user turn only.
C24_Witness ==
    \E i \in 1..Len(tasks) :
        /\ tasks[i].raised = ERR_TIMEOUT /\ tasks[i].gens = MAX_RETRIES
        /\ tasks[i].pc = "flush" /\ tasks[i].enqs = 2
        /\ Len(message_queue) = 2
        /\ message_queue[1].chat_id = OWNER_CHAT_ID
        /\ message_queue[1].text = error_text(tasks[i].upd, ERR_TIMEOUT)
        /\ message_queue[2].chat_id = tasks[i].upd.chat
        /\ message_queue[2].text = APOLOGY_TEXT
        /\ Cardinality(RowsOf(tasks[i].upd.update_id)) = 1

\* the texts str(e) of the failures the program catches
ErrorStrings == {ERR_HTTP, ERR_NET, ERR_VALUE, ERR_TIMEOUT, ERR_UPSTREAM, ERR_STORAGE}

\* the text holds the text of a failure
HoldsError(text) == \E k \in 1..Len(text) : text[k] \in ErrorStrings

\* the texts meant for end users: a generated reply, the canned welcome, the
\* fixed notice and the fixed apology
UserTexts ==
    Responses \cup {NOTICE_TEXT, APOLOGY_TEXT}
    \cup {welcome_text(tasks[i].upd.first_name) : i \in 1..Len(tasks)}

\* C25: every queue entry, every send_message call and every delivery attempt
\* ever made for a chat other than the owner's carries a generated reply, the
\* canned welcome, the fixed notice or the fixed apology; and every one of
\* them whose text holds the text of a failure is addressed to the owner's
\* chat.
C25_UsersNeverSeeErrors ==
    /\ \A k \in 1..Len(message_queue) :
          /\ message_queue[k].chat_id # OWNER_CHAT_ID => message_queue[k].text \in UserTexts
          /\ HoldsError(message_queue[k].text) => message_queue[k].chat_id = OWNER_CHAT_ID
    /\ \A c \in Calls :
          /\ c.chat_id # OWNER_CHAT_ID => c.text \in UserTexts
          /\ HoldsError(c.text) => c.chat_id = OWNER_CHAT_ID
    /\ \A a \in attempts :
          /\ a.chat_id # OWNER_CHAT_ID => a.text \in UserTexts
          /\ HoldsError(a.text) => a.chat_id = OWNER_CHAT_ID

\* C25 witness: after a failed generation the apology was delivered to the
\* customer's chat and rejected there with HTTP 400, and the notification of
\* that rejection waits in the queue for the owner, whose notification of the
\* generation failure was delivered before.
C25_Witness ==
    /\ \E a \in attempts :
          a.chat_id = "A" /\ a.text = APOLOGY_TEXT /\ a.outcome = "http400"
    /\ \E a \in attempts :
          a.chat_id = OWNER_CHAT_ID /\ HoldsError(a.text) /\ a.outcome = "ok"
    /\ \E k \in 1..Len(message_queue) :
          /\ message_queue[k].chat_id = OWNER_CHAT_ID
          /\ message_queue[k].text = blocked_text("A", ERR_HTTP)

\* C26 as stated: whatever the generation call and the delivery attempts end
\* in, and however the tasks interleave, no process_update task ends in an
\* uncaught exception.
C26_NoTaskCrashes == \A i \in 1..Len(tasks) : tasks[i].pc # "crashed"

\* C27: a step in which the dedup lookup of a new task fails changes none of
\* processed_updates, chat_history, LEARNED_CONTEXT, message_queue,
\* chat_timestamps and BLOCKED_CHATS, calls send_message never, posts
\* nothing, starts no generation and leaves every other task as it was; the
\* update is not marked by it, so a later delivery of the update whose
\* lookup succeeds goes past the dedup check, is marked and is handled.
C27_DedupFailsClosed ==
    /\ [][(Delivered /\ NewTask.fault = "is_update_processed")
          => /\ UNCHANGED <<processed_updates, chat_history, LEARNED_CONTEXT,
                            message_queue, chat_timestamps, BLOCKED_CHATS>>
             /\ calls' = <<>> /\ posts' = <<>>
             /\ NewTask.pc = "crashed"
             /\ NewTask.gens = 0 /\ NewTask.apps = 0
             /\ NewTask.learns = 0 /\ NewTask.enqs = 0
             /\ \A i \in 1..Len(tasks) : tasks'[i] = tasks[i]]_vars
    /\ [](\A j \in 1..Len(tasks) :
            (/\ tasks[j].upd.update_id # 0
             /\ tasks[j].fault = "none"
             /\ Earlier(j) # {}
             /\ \A i \in Earlier(j) : tasks[i].fault = "is_update_processed")
            => /\ tasks[j].pc \notin {"ignored", "noid"}
               /\ tasks[j].upd.update_id \in processed_updates)

\* C27 witness: the dedup lookup failed for the owner's message while the
\* customer's question was in a generation attempt, which goes on; the
\* owner's message is not marked and nothing of it was learned.
C27_Witness ==
    /\ Len(tasks) = 2
    /\ tasks[1].pc = "gen" /\ tasks[1].upd.sender = "A"
    /\ tasks[2].fault = "is_update_processed" /\ tasks[2].pc = "crashed"
    /\ tasks[2].upd.sender = OWNER_CHAT_ID
    /\ tasks[2].upd.update_id \notin processed_updates
    /\ LEARNED_CONTEXT = <<>>

\* the update is one whose handling always writes a row to chat_history: a
\* text of the owner, or a fresh question of a customer
AppendsHistory(u) ==
    /\ u.update_id # 0
    /\ u.kind \in {"message", "business_message"}
    /\ u.hasText
    /\ u.sender = OWNER_CHAT_ID \/ (u.text = <<"hi">> /\ u.date = DateNew)

\* C28 as stated: once an update was delivered again and that delivery met
\* no failure, the update's effects have been applied at least once, even
\* if an earlier attempt was aborted after the update had been marked.
C28_EffectsAtLeastOnce ==
    \A j \in 1..Len(tasks) : \A i \in Earlier(j) :
        (/\ AppendsHistory(tasks[j].upd)
         /\ tasks[j].fault = "none"
         /\ Ended(i) /\ Ended(j))
        => \E k \in 1..Len(tasks) :
              /\ tasks[k].upd.update_id = tasks[j].upd.update_id
              /\ tasks[k].apps >= 1

C30_DeliveriesSpacedByInterval ==
    [][\A k \in 1..Len(posts') :
          (posts'[k].outcome = "ok" /\ posts'[k].chat_id \in DOMAIN chat_timestamps)
          => now' - chat_timestamps[posts'[k].chat_id] >= MIN_MESSAGE_INTERVAL]_vars

\* C31 as stated: the delivery attempt for a queued entry of one chat does
\* not wait for the pacing delay of an entry of another chat: while a flush
\* pass sleeps before the attempt for an entry, every entry of another chat
\* that is behind it in the pass's snapshot, still queued and never yet
\* attempted, is the entry some other pass is sleeping for.
C31_DelayLocalToOwnAttempt ==
    \A i \in 1..Len(tasks) :
        tasks[i].pc = "flush"
        => \A k \in (tasks[i].idx + 1)..Len(tasks[i].snap) :
              (/\ tasks[i].snap[k].chat_id # tasks[i].snap[tasks[i].idx].chat_id
               /\ tasks[i].snap[k].eid \in Eids(message_queue)
               /\ tasks[i].snap[k].eid \notin posted)
              => \E j \in 1..Len(tasks) :
                    /\ j # i /\ tasks[j].pc = "flush"
                    /\ tasks[j].snap[tasks[j].idx].eid = tasks[i].snap[k].eid

\* C32 as stated: when process_update is handed a message, direct or through
\* the business connection, of a sender other than the owner, not yet
\* processed and not stale, whose text is absent or empty after trimming,
\* the step calls send_message for the chat with the fixed notice and starts
\* no generation attempt.
C32_NoticeForEmptyOrNonText ==
    [][(/\ Delivered
        /\ PassesDedup(NewTask.upd)
        /\ NewTask.upd.kind \in {"message", "business_message"}
        /\ NewTask.upd.sender # OWNER_CHAT_ID
        /\ NewTask.upd.date >= now - STALE_SECONDS
        /\ ~NewTask.upd.hasText \/ strip(NewTask.upd.text) = <<>>)
       => /\ \E k \in 1..Len(calls') :
                /\ calls'[k].chat_id = NewTask.upd.chat
                /\ calls'[k].text = NOTICE_TEXT
          /\ NewTask.gens = 0]_vars

\* C33 as stated: when process_update is handed a message, direct or through
\* the business connection, of a sender other than the owner, not yet
\* processed, not stale and with a text that is not empty after trimming,
\* then if the text is exactly "/start" the step calls send_message with the
\* canned welcome and starts no generation attempt, and if the text is
\* anything else it appends the user turn to chat_history and starts a
\* generation attempt without any send_message call.
C33_WelcomeIffExactlyStart ==
    [][(/\ Delivered
        /\ PassesDedup(NewTask.upd)
        /\ NewTask.upd.kind \in {"message", "business_message"}
        /\ NewTask.upd.sender # OWNER_CHAT_ID
        /\ NewTask.upd.date >= now - STALE_SECONDS
        /\ NewTask.upd.hasText /\ strip(NewTask.upd.text) # <<>>)
       => IF NewTask.upd.text = <<"/start">>
          THEN /\ Len(calls') = 1
               /\ calls'[1].text = welcome_text(NewTask.upd.first_name)
               /\ NewTask.gens = 0
          ELSE /\ calls' = <<>>
               /\ NewTask.gens = 1 /\ NewTask.pc = "gen"
               /\ Len(chat_history') = Len(chat_history) + 1
               /\ chat_history'[Len(chat_history')].role = "user"]_vars

\* C34: no step removes a chat from BLOCKED_CHATS; a step adds a chat to it
\* only if it made a delivery attempt for that chat that was answered with
\* HTTP 400; and every delivery attempt answered with HTTP 400 leaves the
\* chat of its entry in it.
C34_BlockedOnlyGrows ==
    [][/\ BLOCKED_CHATS \subseteq BLOCKED_CHATS'
       /\ \A c \in BLOCKED_CHATS' \ BLOCKED_CHATS :
             \E k \in 1..Len(posts') :
                posts'[k].chat_id = c /\ posts'[k].outcome = "http400"
       /\ \A k \in 1..Len(posts') :
             posts'[k].outcome = "http400" => posts'[k].chat_id \in BLOCKED_CHATS']_vars

\* C34 witness: an entry for chat A that was still in a snapshot when A was
\* blocked has been delivered successfully, A is still blocked, and the
\* owner's chat has been blocked as well.
C34_Witness ==
    /\ \E p \in Posts : p.chat_id = "A" /\ p.blocked /\ p.outcome = "ok"
    /\ BLOCKED_CHATS = {"A", OWNER_CHAT_ID}

\* C35 as stated: whenever every process_update task has run to its end, the
\* queue is empty: nothing that was accepted, the notifications queued from
\* inside a flush pass included, is left waiting for a further update.
C35_QueueDrained ==
    (/\ tasks # <<>>
     /\ \A i \in 1..Len(tasks) : tasks[i].pc \in {"done", "ignored", "noid"})
    => message_queue = <<>>

\* C36 as stated: a bot row is in chat_history for an update only if the
\* send_message call for that reply or welcome was accepted.
C36_BotTurnOnlyIfAccepted ==
    \A i \in 1..Len(tasks) :
        (/\ tasks[i].upd.update_id # 0
         /\ \E k \in RowsOf(tasks[i].upd.update_id) : chat_history[k].role = "bot")
        => \E j \in 1..Len(tasks) :
              /\ tasks[j].upd.update_id = tasks[i].upd.update_id
              /\ tasks[j].enqs >= 1

\* C37 as stated: of the generated reply and the fixed apology, at most one
\* is queued for the originating chat on behalf of one update: the queue
\* never holds both for the same update.
C37_ReplyOrApologyNotBoth ==
    \A k, l \in 1..Len(message_queue) :
        (/\ message_queue[k].uid = message_queue[l].uid
         /\ message_queue[k].chat_id = message_queue[l].chat_id
         /\ message_queue[k].chat_id # OWNER_CHAT_ID)
        => ~(message_queue[k].text \in Responses /\ message_queue[l].text = APOLOGY_TEXT)

\* the entries of a queue that are addressed to the owner's chat
OwnerEids(q) == {q[k].eid : k \in {n \in 1..Len(q) : q[n].chat_id = OWNER_CHAT_ID}}

\* A step from a state whose BLOCKED_CHATS holds the owner's chat adds no
\* queue entry for the owner and accepts no call for the owner.
OwnerBlockedStaysOut ==
    OWNER_CHAT_ID \in BLOCKED_CHATS
    => /\ OwnerEids(message_queue') \subseteq OwnerEids(message_queue)
       /\ \A k \in 1..Len(calls') :
             calls'[k].chat_id = OWNER_CHAT_ID => ~calls'[k].accepted

\* C38: a send_message call for the owner's chat is accepted exactly when
\* the owner's chat is not in BLOCKED_CHATS, at least MIN_MESSAGE_INTERVAL
\* seconds have passed since its last_message_time and the queue holds fewer
\* than MAX_QUEUE_SIZE entries; and once the owner's chat is in
\* BLOCKED_CHATS no step adds a queue entry for it.
C38_OwnerNotificationsGated ==
    /\ [](\A c \in Calls :
            c.chat_id = OWNER_CHAT_ID
            => (c.accepted <=> /\ ~c.blocked
                               /\ c.time - c.last >= MIN_MESSAGE_INTERVAL
                               /\ c.qlen < MAX_QUEUE_SIZE))
    /\ [][OwnerBlockedStaysOut]_vars

\* C38 witness: the owner's chat was blocked by an earlier attempt; a later
\* attempt for one of the owner's entries has failed, and the notification
\* of that failure was rejected because the owner's chat is blocked.
C38_Witness ==
    /\ OWNER_CHAT_ID \in BLOCKED_CHATS
    /\ \E p \in Posts : p.chat_id = OWNER_CHAT_ID /\ p.blocked /\ p.outcome \in Transient
    /\ \E c \in Calls :
          /\ c.chat_id = OWNER_CHAT_ID /\ c.blocked /\ ~c.accepted
          /\ c.text = send_failed_text(OWNER_CHAT_ID, ERR_NET)

====
